---- MODULE Spec2Model ----
(***************************************************************************)
(* ControllerWpantund (src/agent/ncp_wpantund.cpp): the border-router      *)
(* agent's controller of wpantund over D-Bus.  The model covers the        *)
(* controller's life cycle (constructor, Init, destructor), the TMF proxy  *)
(* session (TmfProxyStart, TmfProxyStop, TmfProxySend, TmfProxyEnable),     *)
(* the signal filter with its restart detection, the watch registry and    *)
(* the readiness integration (UpdateFdSet, Process), the decoding of       *)
(* property values (ParseEvent) and the synchronous property requests      *)
(* (RequestEvent, GetProperty, GetEui64).                                  *)
(*                                                                         *)
(* Strings the code searches (strstr) are sequences of characters; bus     *)
(* names, which the code only compares (strcmp), are TLA+ strings.         *)
(***************************************************************************)
EXTENDS Integers, Sequences, FiniteSets, TLC

VARIABLES
    alive,               \* "live" | "destroyed" | "crashed": the object's life
    mInterfaceName,      \* char mInterfaceName[]: set by the constructor
    mDBus,               \* DBusConnection *mDBus: NULL or a connection
    mInterfaceDBusName,  \* char mInterfaceDBusName[]: "" until resolved
    mInterfaceDBusPath,  \* char mInterfaceDBusPath[]: Uninit until first resolved
    mWatches,            \* std::map<DBusWatch *, bool>
    busEnabled,          \* libdbus' own enabled state of every watch it has added
    incoming,            \* messages libdbus has queued for dispatch
    outPending,          \* dbus_connection_has_messages_to_send(mDBus)
    pc,                  \* "idle" | "drain": position inside Process
    mEui64,              \* uint8_t mEui64[kSizeEui64]: Unwritten bytes until filled
    last                 \* what the last operation was given, did and returned

vars == <<alive, mInterfaceName, mDBus, mInterfaceDBusName, mInterfaceDBusPath,
          mWatches, busEnabled, incoming, outPending, pc, mEui64, last>>

-----------------------------------------------------------------------------
(* Bounds of the model. *)

\* longest queue of undispatched incoming messages
MaxQueue == 1
\* longest datagram body handed to TmfProxySend
MaxBody == 1
\* most watches libdbus has registered at one time
MaxWatches == 2
\* longest queue of undispatched messages one call of Process finds
MaxBacklog == 2

-----------------------------------------------------------------------------
(* Values. *)

NULL == "NULL"

\* an uninitialised char array: its contents are indeterminate
Uninit == <<"?">>

\* WPANTUND_DBUS_PATH, shortened
WPANTUND_DBUS_PATH == <<"/", "o">>

\* the interface names a controller is constructed with
IfNames == {<<"w">>, <<"w", "1">>}

\* the unique bus names wpantund can have (it gets a new one when it restarts)
DaemonNames == {":1", ":2"}

\* snprintf(mInterfaceDBusPath, ..., "%s/%s", WPANTUND_DBUS_PATH, mInterfaceName)
ObjectPath(ifname) == WPANTUND_DBUS_PATH \o <<"/">> \o ifname

\* the object paths incoming messages carry
MsgPaths == {ObjectPath(n) : n \in IfNames}

OTBR_ERROR_NONE == "OTBR_ERROR_NONE"
OTBR_ERROR_ERRNO == "OTBR_ERROR_ERRNO"
OTBR_ERROR_DBUS == "OTBR_ERROR_DBUS"

DBUS_HANDLER_RESULT_HANDLED == "HANDLED"
DBUS_HANDLER_RESULT_NOT_YET_HANDLED == "NOT_YET_HANDLED"

DBUS_WATCH_READABLE == "R"
DBUS_WATCH_WRITABLE == "W"
DBUS_WATCH_ERROR == "E"

DBUS_REQUEST_NAME_REPLY_PRIMARY_OWNER == 1

kWPANTUNDProperty_TmfProxyEnabled == "TmfProxy:Enabled"
kWPANTUNDProperty_TmfProxyStream == "TmfProxy:Stream"

Bytes == {0, 255}
Words == {0, 4660}
\* the UDP port of a proxied datagram (the Thread management port)
Ports == {61631}

\* the size of the hardware address, and mEui64 as the constructor leaves it:
\* no byte written
kSizeEui64 == 8
NoEui64 == [k \in 1..kSizeEui64 |-> -1]

\* the status that heads a reply of wpantund to a property request
SPINEL_STATUS_OK == 0

RECURSIVE SeqsUpTo(_, _)
SeqsUpTo(S, n) ==
    IF n = 0 THEN {<<>>}
    ELSE LET shorter == SeqsUpTo(S, n - 1)
         IN shorter \cup {Append(s, x) : s \in {t \in shorter : Len(t) = n - 1}, x \in S}

-----------------------------------------------------------------------------
(* The record every operation leaves in last. *)

NoMsg ==
    [sender |-> NULL, hasPath |-> FALSE, path |-> <<>>, isPropChanged |-> FALSE,
     args |-> <<>>]

\* no reply: dbus_connection_send_with_reply_and_block returned NULL
NoReply == [isNull |-> TRUE, args |-> <<>>]

NoInit ==
    [starter |-> FALSE, system |-> FALSE, register |-> FALSE, reply |-> -1,
     watch |-> FALSE, match |-> FALSE, filter |-> FALSE]

Blank ==
    [op |-> "none", ret |-> OTBR_ERROR_NONE, errno |-> "-",
     sent |-> <<>>,          \* messages put on the bus, in order
     nullSends |-> 0,        \* dbus_connection_send calls made with a NULL connection
     starts |-> 0,           \* TmfProxyStart calls made
     lookupOk |-> FALSE,     \* lookup_dbus_name_from_interface returned 0
     msg |-> NoMsg,          \* the message the filter was given
     nameBefore |-> "",      \* mInterfaceDBusName when the operation began
     dbusBefore |-> NULL,    \* mDBus when the operation began
     result |-> DBUS_HANDLER_RESULT_NOT_YET_HANDLED,
     parseRet |-> OTBR_ERROR_NONE,  \* what ParseEvent returned
     decoded |-> FALSE,      \* ParseEvent was called
     events |-> <<>>,        \* what EventEmitter::Emit was given, in order
     steps |-> <<>>,         \* the bus calls Init made, in order
     init |-> NoInit,        \* what the bus did in the calls of Init
     inRead |-> {}, inWrite |-> {}, inError |-> {}, inMax |-> -1,
     outRead |-> {}, outWrite |-> {}, outError |-> {}, outMax |-> -1,
     handed |-> {},          \* <<watch, flags>> given to dbus_watch_handle
     queued |-> <<>>,        \* the messages queued when Process was called
     filtered |-> <<>>,      \* the messages Process has passed to the filter
     aEvent |-> "-",         \* the event RequestEvent was asked for
     reply |-> NoReply,      \* the reply a property request got
     requests |-> 0,         \* property requests put on the bus
     euiBefore |-> NoEui64,  \* mEui64 when the operation began
     euiRet |-> NULL]        \* what GetEui64 returned

-----------------------------------------------------------------------------
(* ControllerWpantund::ControllerWpantund *)

ControllerWpantund ==
    /\ alive = "live"
    /\ mInterfaceName \in IfNames
    /\ mDBus = NULL
    /\ mInterfaceDBusName = ""
    /\ mInterfaceDBusPath = Uninit
    /\ mWatches = <<>>
    /\ busEnabled = <<>>
    /\ incoming = <<>>
    /\ outPending = FALSE
    /\ pc = "idle"
    /\ mEui64 = NoEui64
    /\ last = Blank

-----------------------------------------------------------------------------
(* libdbus and wpantund calls the controller makes.  e is what the library *)
(* does in one call of the controller: e.chk says whether libdbus' argument*)
(* checks (_dbus_return_val_if_fail) are compiled in, e.oom which of the   *)
(* allocating calls runs out of memory.                                    *)

LibOutcomes == [chk : BOOLEAN, oom : {"none", "new", "append", "send"}]
NoFault == [chk |-> TRUE, oom |-> "none"]

\* lookup_dbus_name_from_interface(mInterfaceDBusName, mInterfaceName): on
\* success the name is the daemon's; on failure the buffer is left as it was
\* ("keep") or cleared ("")
Lookups ==
    [ok : {TRUE}, name : DaemonNames] \cup [ok : {FALSE}, name : {"keep", ""}]

\* dbus_message_new_method_call(destination, path, ...) != NULL.  An empty
\* destination is no valid bus name and an uninitialised path no valid path:
\* with the argument checks compiled in the call returns NULL, without them
\* it builds the message.
dbus_message_new_method_call(destination, path, e) ==
    IF e.oom = "new" THEN FALSE
    ELSE IF destination = "" \/ path = Uninit THEN ~e.chk
    ELSE TRUE

\* dbus_connection_send(connection, message, NULL): "true", "false", or
\* "crash" (a NULL connection dereferenced when the checks are compiled out)
dbus_connection_send(connection, e) ==
    IF connection = NULL THEN (IF e.chk THEN "false" ELSE "crash")
    ELSE IF e.oom = "send" THEN "false"
    ELSE "true"

\* the property-set method call TmfProxyEnable and TmfProxySend build
PropSet(destination, path, key, type, value) ==
    [dest |-> destination, path |-> path, member |-> "PropSet",
     key |-> key, type |-> type, value |-> value]

Outcome(ret, errno, name, path, sent, nullSends, crash, lookupOk) ==
    [ret |-> ret, errno |-> errno, name |-> name, path |-> path, sent |-> sent,
     nullSends |-> nullSends, crash |-> crash, lookupOk |-> lookupOk]

-----------------------------------------------------------------------------
(* ControllerWpantund::TmfProxyEnable *)

DoTmfProxyEnable(conn, name, path, aEnable, e) ==
    IF ~dbus_message_new_method_call(name, path, e)
    THEN Outcome(OTBR_ERROR_ERRNO, "ENOMEM", name, path, <<>>, 0, FALSE, FALSE)
    ELSE IF e.oom = "append"
    THEN Outcome(OTBR_ERROR_ERRNO, "EINVAL", name, path, <<>>, 0, FALSE, FALSE)
    ELSE LET s == dbus_connection_send(conn, e)
             message == PropSet(name, path, kWPANTUNDProperty_TmfProxyEnabled, "b",
                                <<IF aEnable THEN 1 ELSE 0>>)
         IN IF s = "true"
            THEN Outcome(OTBR_ERROR_NONE, "-", name, path, <<message>>, 0, FALSE, FALSE)
            ELSE Outcome(OTBR_ERROR_ERRNO, "ENOMEM", name, path, <<>>,
                         IF conn = NULL THEN 1 ELSE 0, s = "crash", FALSE)

(* ControllerWpantund::TmfProxyStart *)

\* the result of the lookup ignored: the proxy enabled on the binding as it is
DoTmfProxyStartUnchecked(conn, ifname, name, path, lk, e) ==
    IF ~lk.ok
    THEN DoTmfProxyEnable(conn, name, path, TRUE, e)
    ELSE [DoTmfProxyEnable(conn, lk.name, ObjectPath(ifname), TRUE, e)
            EXCEPT !.lookupOk = TRUE]

DoTmfProxyStart(conn, ifname, name, path, lk, e) ==
    IF ~lk.ok
    THEN Outcome(OTBR_ERROR_ERRNO, "ENODEV", IF lk.name = "keep" THEN name ELSE "",
                 path, <<>>, 0, FALSE, FALSE)
    ELSE [DoTmfProxyEnable(conn, lk.name, ObjectPath(ifname), TRUE, e)
            EXCEPT !.lookupOk = TRUE]

(* ControllerWpantund::TmfProxyStop *)

\* no test of the binding: the proxy disabled whatever the binding is
DoTmfProxyStopUnguarded(conn, name, path, e) ==
    DoTmfProxyEnable(conn, name, path, FALSE, e)

\* the binding cleared once the proxy is disabled
DoTmfProxyStopClearing(conn, name, path, e) ==
    IF name = ""
    THEN Outcome(OTBR_ERROR_NONE, "-", name, path, <<>>, 0, FALSE, FALSE)
    ELSE [DoTmfProxyEnable(conn, name, path, FALSE, e) EXCEPT !.name = ""]

DoTmfProxyStop(conn, name, path, e) ==
    IF name = ""
    THEN Outcome(OTBR_ERROR_NONE, "-", name, path, <<>>, 0, FALSE, FALSE)
    ELSE DoTmfProxyEnable(conn, name, path, FALSE, e)

(* ControllerWpantund::TmfProxySend *)

\* data = aBuffer ++ [aLocator >> 8, aLocator & 0xff, aPort >> 8, aPort & 0xff]
EncodeStream(aBuffer, aLocator, aPort) ==
    aBuffer \o <<(aLocator \div 256) % 256, aLocator % 256,
                 (aPort \div 256) % 256, aPort % 256>>

DoTmfProxySend(conn, name, path, aBuffer, aLocator, aPort, e) ==
    IF ~dbus_message_new_method_call(name, path, e)
    THEN Outcome(OTBR_ERROR_ERRNO, "ENOMEM", name, path, <<>>, 0, FALSE, FALSE)
    ELSE IF e.oom = "append"
    THEN Outcome(OTBR_ERROR_ERRNO, "EINVAL", name, path, <<>>, 0, FALSE, FALSE)
    ELSE LET s == dbus_connection_send(conn, e)
             message == PropSet(name, path, kWPANTUNDProperty_TmfProxyStream, "ay",
                                EncodeStream(aBuffer, aLocator, aPort))
         IN IF s = "true"
            THEN Outcome(OTBR_ERROR_NONE, "-", name, path, <<message>>, 0, FALSE, FALSE)
            ELSE Outcome(OTBR_ERROR_ERRNO, "ENOMEM", name, path, <<>>,
                         IF conn = NULL THEN 1 ELSE 0, s = "crash", FALSE)

-----------------------------------------------------------------------------
(* What a call of the proxy API leaves behind. *)

Callable == alive = "live" /\ pc = "idle"

Record(op, r) ==
    [Blank EXCEPT !.op = op, !.ret = r.ret, !.errno = r.errno, !.sent = r.sent,
                  !.nullSends = r.nullSends, !.lookupOk = r.lookupOk,
                  !.nameBefore = mInterfaceDBusName, !.dbusBefore = mDBus]

Apply(r) ==
    /\ mInterfaceDBusName' = r.name
    /\ mInterfaceDBusPath' = r.path
    /\ outPending' = (outPending \/ r.sent # <<>>)
    /\ alive' = IF r.crash THEN "crashed" ELSE alive

TmfProxyStart ==
    /\ Callable
    /\ \E lk \in Lookups, e \in LibOutcomes :
         \* no libdbus call is made when the lookup fails
         /\ ~lk.ok => e = NoFault
         /\ LET r == DoTmfProxyStart(mDBus, mInterfaceName, mInterfaceDBusName,
                                  mInterfaceDBusPath, lk, e)
            IN /\ Apply(r)
               /\ last' = [Record("TmfProxyStart", r) EXCEPT !.starts = 1]
    /\ UNCHANGED <<mEui64, mInterfaceName, mDBus, mWatches, busEnabled, incoming, pc>>

TmfProxyStop ==
    /\ Callable
    /\ \E e \in LibOutcomes :
         LET r == DoTmfProxyStop(mDBus, mInterfaceDBusName, mInterfaceDBusPath, e)
         IN /\ Apply(r)
            /\ last' = Record("TmfProxyStop", r)
    /\ UNCHANGED <<mEui64, mInterfaceName, mDBus, mWatches, busEnabled, incoming, pc>>

TmfProxySend ==
    /\ Callable
    /\ \E aBuffer \in SeqsUpTo(Bytes, MaxBody), aLocator \in Words, aPort \in Ports,
          e \in LibOutcomes :
         LET r == DoTmfProxySend(mDBus, mInterfaceDBusName, mInterfaceDBusPath,
                                 aBuffer, aLocator, aPort, e)
         IN /\ Apply(r)
            /\ last' = Record("TmfProxySend", r)
    /\ UNCHANGED <<mEui64, mInterfaceName, mDBus, mWatches, busEnabled, incoming, pc>>

-----------------------------------------------------------------------------
(* ControllerWpantund::Init *)

\* what dbus_bus_request_name can reply: -1 (error), primary owner, in queue,
\* exists, already owner
RequestNameReplies == {-1, 1, 2, 3, 4}

\* what the bus does in one call of Init
InitOutcomes ==
    [starter : BOOLEAN, system : BOOLEAN, register : BOOLEAN,
     reply : RequestNameReplies, watch : BOOLEAN, match : BOOLEAN, filter : BOOLEAN]

\* the calls Init makes after it has a connection, each with its success
InitCalls(i) ==
    << <<"dbus_bus_register", i.register>>,
       <<"dbus_bus_request_name", i.reply = DBUS_REQUEST_NAME_REPLY_PRIMARY_OWNER>>,
       <<"dbus_connection_set_watch_functions", i.watch>>,
       <<"dbus_bus_add_match", i.match>>,
       <<"dbus_connection_add_filter", i.filter>> >>

\* VerifyOrExit after every call: the calls up to and including the first
\* that fails
RECURSIVE UntilFailure(_, _)
UntilFailure(calls, k) ==
    IF k > Len(calls) THEN <<>>
    ELSE IF ~calls[k][2] THEN <<calls[k][1]>>
    ELSE <<calls[k][1]>> \o UntilFailure(calls, k + 1)

\* a call Init does not make has no outcome: it is listed as succeeding
InitInputs ==
    {i \in InitOutcomes :
        /\ i.starter => i.system
        /\ ~i.system => \A k \in 1..Len(InitCalls(i)) : InitCalls(i)[k][2]
        /\ \A k \in 1..Len(InitCalls(i)) :
              ~InitCalls(i)[k][2] => \A j \in (k + 1)..Len(InitCalls(i)) : InitCalls(i)[j][2]}

\* the connection dbus_bus_get returns
Connection == "connection"

\* the connection kept when a step fails
DoInitKeepingHandle(i) ==
    LET conn == IF i.starter \/ i.system THEN Connection ELSE NULL
        gets == IF i.starter THEN <<"dbus_bus_get(STARTER)">>
                ELSE <<"dbus_bus_get(STARTER)", "dbus_bus_get(SYSTEM)">>
        made == IF conn = NULL THEN <<>> ELSE UntilFailure(InitCalls(i), 1)
        ok == conn # NULL /\ \A k \in 1..Len(InitCalls(i)) : InitCalls(i)[k][2]
    IN [ret |-> IF ok THEN OTBR_ERROR_NONE ELSE OTBR_ERROR_DBUS, conn |-> conn,
        steps |-> gets \o made]

DoInit(i) ==
    LET conn == IF i.starter \/ i.system THEN Connection ELSE NULL
        gets == IF i.starter THEN <<"dbus_bus_get(STARTER)">>
                ELSE <<"dbus_bus_get(STARTER)", "dbus_bus_get(SYSTEM)">>
        made == IF conn = NULL THEN <<>> ELSE UntilFailure(InitCalls(i), 1)
        ok == conn # NULL /\ \A k \in 1..Len(InitCalls(i)) : InitCalls(i)[k][2]
    IN IF ok
       THEN [ret |-> OTBR_ERROR_NONE, conn |-> conn, steps |-> gets \o made]
       ELSE [ret |-> OTBR_ERROR_DBUS, conn |-> NULL,
             steps |-> gets \o made \o
                       (IF conn # NULL THEN <<"dbus_connection_unref">> ELSE <<>>)]

\* Init is called on a controller that holds no connection.  libdbus calls
\* AddDBusWatch for its watches once the watch functions are installed; the
\* model lets it do so after Init has returned.
Init ==
    /\ Callable
    /\ mDBus = NULL
    /\ \E i \in InitInputs :
         LET r == DoInit(i)
         IN /\ mDBus' = r.conn
            /\ last' = [Blank EXCEPT !.op = "Init", !.ret = r.ret, !.steps = r.steps,
                                     !.init = i,
                                     !.nameBefore = mInterfaceDBusName,
                                     !.dbusBefore = mDBus]
    /\ UNCHANGED <<mEui64, alive, mInterfaceName, mInterfaceDBusName, mInterfaceDBusPath,
                   mWatches, busEnabled, incoming, outPending, pc>>

(* ControllerWpantund::~ControllerWpantund *)

Destructor ==
    /\ Callable
    /\ \E e \in LibOutcomes :
         LET r == DoTmfProxyStop(mDBus, mInterfaceDBusName, mInterfaceDBusPath, e)
         IN /\ alive' = IF r.crash THEN "crashed" ELSE "destroyed"
            /\ mDBus' = IF r.crash THEN mDBus ELSE NULL
            /\ last' = [Record("Destructor", r) EXCEPT
                          !.steps = IF mDBus # NULL /\ ~r.crash
                                    THEN <<"dbus_connection_unref">> ELSE <<>>]
    /\ incoming' = <<>>
    /\ outPending' = FALSE
    /\ UNCHANGED <<mEui64, mInterfaceName, mInterfaceDBusName, mInterfaceDBusPath,
                   mWatches, busEnabled, pc>>

-----------------------------------------------------------------------------
(* Incoming messages.  sender is a bus name or NULL, the path may be       *)
(* absent; isPropChanged is dbus_message_is_signal(..., PROP_CHANGED);     *)
(* args are the message's arguments: the property name, then its value.    *)

kWPANTUNDProperty_NCPState == "NCP:State"
kWPANTUNDProperty_NetworkName == "Network:Name"
kWPANTUNDProperty_NetworkXPANID == "Network:XPANID"
kWPANTUNDProperty_NetworkPSKc == "Network:PSKc"

\* an argument of a message: a string, a byte array, or a 64-bit integer as
\* the 8 bytes it has in the host's memory.  The elements of a byte array
\* are pad zero bytes followed by bytes.
StringArg(str) == [type |-> "s", str |-> str, pad |-> 0, bytes |-> <<>>]
ArrayArg(bytes) == [type |-> "ay", str |-> "", pad |-> 0, bytes |-> bytes]
PaddedArrayArg(pad, bytes) == [type |-> "ay", str |-> "", pad |-> pad, bytes |-> bytes]
UInt64Arg(mem) == [type |-> "t", str |-> "", pad |-> 0, bytes |-> mem]

\* the element count dbus_message_iter_get_fixed_array reports
Count(arg) == arg.pad + Len(arg.bytes)

Message(sender, hasPath, path, isPropChanged, args) ==
    [sender |-> sender, hasPath |-> hasPath, path |-> path,
     isPropChanged |-> isPropChanged, args |-> args]

Senders == DaemonNames \cup {NULL}

\* what the messages of the controller's life cycle carry: a method call or
\* another signal, and the NCP state changing
Bodies ==
    { [isPropChanged |-> FALSE, args |-> <<>>],
      [isPropChanged |-> TRUE,
       args |-> <<StringArg(kWPANTUNDProperty_NCPState), StringArg("associated")>>] }

Messages ==
    {Message(s, TRUE, p, b.isPropChanged, b.args) :
        s \in Senders, p \in MsgPaths, b \in Bodies}
    \cup {Message(s, FALSE, <<>>, b.isPropChanged, b.args) : s \in Senders, b \in Bodies}

-----------------------------------------------------------------------------
(* ControllerWpantund::ParseEvent *)

kSizeExtPanId == 8
kSizePSKc == 16

\* __BYTE_ORDER == __LITTLE_ENDIAN
LittleEndianHost == TRUE

\* what a read outside an array gives: any byte, or the process dies
OutOfBounds == [oob : Bytes, crash : BOOLEAN]

Reverse(q) == [k \in 1..Len(q) |-> q[Len(q) + 1 - k]]

\* buf[i], i counted from 0, of an array of Count(buf) elements
At(buf, i, u) ==
    IF i < buf.pad THEN 0
    ELSE IF i < Count(buf) THEN buf.bytes[i - buf.pad + 1]
    ELSE u.oob

Parsed(ret, events, crash) == [ret |-> ret, events |-> events, crash |-> crash]

\* aIter stands at arg (NoArg when the message has no further argument)
NoArg == [type |-> "-", str |-> "", pad |-> 0, bytes |-> <<>>]

\* the branch for kWPANTUNDProperty_TmfProxyStream
ParseTmfProxyStream(arg, u) ==
    LET buf == arg
        \* len = static_cast<uint16_t>(nelements)
        len0 == Count(buf) % 65536
        i1 == (len0 - 1) % 65536
        i2 == (i1 - 1) % 65536
        i3 == (i2 - 1) % 65536
        i4 == (i3 - 1) % 65536
        port == At(buf, i1, u) + 256 * At(buf, i2, u)
        locator == At(buf, i3, u) + 256 * At(buf, i4, u)
        outside == \E i \in {i1, i2, i3, i4} : i >= Count(buf)
    IN IF outside /\ u.crash
       THEN Parsed(OTBR_ERROR_NONE, <<>>, TRUE)
       ELSE Parsed(OTBR_ERROR_NONE,
                   <<[kind |-> "kEventTmfProxyStream", pad |-> buf.pad,
                      buf |-> buf.bytes, len |-> i4,
                      locator |-> locator, port |-> port]>>, FALSE)

\* the extended PAN id emitted whatever the array's length
ParseNetworkXPANIDUnsized(arg) ==
    Parsed(OTBR_ERROR_NONE, <<[kind |-> "kEventExtPanId", value |-> arg.bytes]>>, FALSE)

\* the branch for kWPANTUNDProperty_NetworkXPANID
ParseNetworkXPANID(arg) ==
    IF arg.type = "t"
    THEN Parsed(OTBR_ERROR_NONE,
                <<[kind |-> "kEventExtPanId",
                   value |-> IF LittleEndianHost THEN Reverse(arg.bytes)
                             ELSE arg.bytes]>>, FALSE)
    ELSE IF arg.type = "ay"
    THEN IF Count(arg) = kSizeExtPanId
         THEN Parsed(OTBR_ERROR_NONE,
                     <<[kind |-> "kEventExtPanId", value |-> arg.bytes]>>, FALSE)
         ELSE Parsed(OTBR_ERROR_DBUS, <<>>, FALSE)
    ELSE Parsed(OTBR_ERROR_NONE,
                <<[kind |-> "kEventExtPanId",
                   value |-> [k \in 1..kSizeExtPanId |-> 0]]>>, FALSE)

\* the branch for kWPANTUNDProperty_NetworkPSKc
ParseNetworkPSKc(arg) ==
    IF Count(arg) = kSizePSKc
    THEN Parsed(OTBR_ERROR_NONE, <<[kind |-> "kEventPSKc", value |-> arg.bytes]>>, FALSE)
    ELSE Parsed(OTBR_ERROR_DBUS, <<>>, FALSE)

ParseEvent(aKey, arg, u) ==
    IF aKey = kWPANTUNDProperty_TmfProxyStream
    THEN ParseTmfProxyStream(arg, u)
    ELSE IF aKey = kWPANTUNDProperty_NCPState
    THEN Parsed(OTBR_ERROR_NONE,
                <<[kind |-> "kEventThreadState", value |-> (arg.str = "associated")]>>,
                FALSE)
    ELSE IF aKey = kWPANTUNDProperty_NetworkName
    THEN Parsed(OTBR_ERROR_NONE,
                <<[kind |-> "kEventNetworkName", value |-> arg.str]>>, FALSE)
    ELSE IF aKey = kWPANTUNDProperty_NetworkXPANID
    THEN ParseNetworkXPANID(arg)
    ELSE IF aKey = kWPANTUNDProperty_NetworkPSKc
    THEN ParseNetworkPSKc(arg)
    ELSE Parsed(OTBR_ERROR_NONE, <<>>, FALSE)

-----------------------------------------------------------------------------
(* ControllerWpantund::HandlePropertyChangedSignal *)

\* strstr(haystack, needle) != NULL
strstr(haystack, needle) ==
    \E k \in 1..(Len(haystack) - Len(needle) + 1) :
        SubSeq(haystack, k, k + Len(needle) - 1) = needle

\* the restart detection moved behind the dbus_message_is_signal check
NameChangedOfSignal(m, ifname, name) ==
    /\ m.isPropChanged
    /\ m.sender # NULL
    /\ m.hasPath
    /\ m.sender # name
    /\ strstr(m.path, ifname)

\* sender && path && strcmp(sender, mInterfaceDBusName) && strstr(path, mInterfaceName)
NameChanged(m, ifname, name) ==
    /\ m.sender # NULL
    /\ m.hasPath
    /\ m.sender # name
    /\ strstr(m.path, ifname)

\* SuccessOrExit(aStatus): goto exit unless aStatus is 0
SuccessOrExit(aStatus) == aStatus # 0

\* the status of ParseEvent itself handed to SuccessOrExit
DecodeChecked(m, u) ==
    IF ~m.isPropChanged
    THEN [result |-> DBUS_HANDLER_RESULT_NOT_YET_HANDLED,
          parsed |-> Parsed(OTBR_ERROR_NONE, <<>>, FALSE), decoded |-> FALSE]
    ELSE IF Len(m.args) = 0
    THEN [result |-> DBUS_HANDLER_RESULT_NOT_YET_HANDLED,
          parsed |-> Parsed(OTBR_ERROR_NONE, <<>>, FALSE), decoded |-> FALSE]
    ELSE LET key == m.args[1].str
             arg == IF Len(m.args) > 1 THEN m.args[2] ELSE NoArg
             parsed == ParseEvent(key, arg, u)
             exits == SuccessOrExit(IF OTBR_ERROR_NONE = parsed.ret THEN 0 ELSE 1)
         IN [result |-> IF exits \/ parsed.crash
                        THEN DBUS_HANDLER_RESULT_NOT_YET_HANDLED
                        ELSE DBUS_HANDLER_RESULT_HANDLED,
             parsed |-> parsed, decoded |-> TRUE]

\* the part of the filter after the restart detection: the handler result
\* and what ParseEvent did
Decode(m, u) ==
    IF ~m.isPropChanged
    THEN [result |-> DBUS_HANDLER_RESULT_NOT_YET_HANDLED,
          parsed |-> Parsed(OTBR_ERROR_NONE, <<>>, FALSE), decoded |-> FALSE]
    ELSE IF Len(m.args) = 0
    THEN [result |-> DBUS_HANDLER_RESULT_NOT_YET_HANDLED,
          parsed |-> Parsed(OTBR_ERROR_NONE, <<>>, FALSE), decoded |-> FALSE]
    ELSE LET key == m.args[1].str
             arg == IF Len(m.args) > 1 THEN m.args[2] ELSE NoArg
             parsed == ParseEvent(key, arg, u)
             exits == SuccessOrExit(IF OTBR_ERROR_NONE = parsed.ret THEN 1 ELSE 0)
         IN [result |-> IF exits \/ parsed.crash
                        THEN DBUS_HANDLER_RESULT_NOT_YET_HANDLED
                        ELSE DBUS_HANDLER_RESULT_HANDLED,
             parsed |-> parsed, decoded |-> TRUE]

\* a message that made the filter restart the proxy reported as handled
DoHandlePropertyChangedSignalConsuming(conn, ifname, name, path, m, lk, e, u) ==
    LET restart == NameChanged(m, ifname, name)
        r == IF restart
             THEN DoTmfProxyStart(conn, ifname, name, path, lk, e)
             ELSE Outcome(OTBR_ERROR_NONE, "-", name, path, <<>>, 0, FALSE, FALSE)
        d == Decode(m, u)
    IN [start |-> r, starts |-> IF restart THEN 1 ELSE 0,
        result |-> IF restart THEN DBUS_HANDLER_RESULT_HANDLED ELSE d.result,
        events |-> d.parsed.events,
        parseRet |-> d.parsed.ret, decoded |-> d.decoded,
        crash |-> r.crash \/ d.parsed.crash]

DoHandlePropertyChangedSignal(conn, ifname, name, path, m, lk, e, u) ==
    LET restart == NameChanged(m, ifname, name)
        r == IF restart
             THEN DoTmfProxyStart(conn, ifname, name, path, lk, e)
             ELSE Outcome(OTBR_ERROR_NONE, "-", name, path, <<>>, 0, FALSE, FALSE)
        d == Decode(m, u)
    IN [start |-> r, starts |-> IF restart THEN 1 ELSE 0,
        result |-> d.result, events |-> d.parsed.events,
        parseRet |-> d.parsed.ret, decoded |-> d.decoded,
        crash |-> r.crash \/ d.parsed.crash]

-----------------------------------------------------------------------------
(* Dispatch: libdbus queues an incoming message, and hands the queued      *)
(* messages to the filter one by one while Process drains the connection.  *)

\* libdbus queues one of the candidates unless limit messages wait
QueueMessage(limit, candidates) ==
    /\ alive = "live"
    /\ mDBus # NULL
    \* libdbus reads its socket in dbus_watch_handle and in blocking calls;
    \* while data remains, dbus_connection_read_write_dispatch only dispatches
    /\ pc = "idle"
    /\ Len(incoming) < limit
    /\ \E m \in candidates : incoming' = Append(incoming, m)
    /\ last' = [Blank EXCEPT !.op = "Receive"]
    /\ UNCHANGED <<mEui64, alive, mInterfaceName, mDBus, mInterfaceDBusName,
                   mInterfaceDBusPath, mWatches, busEnabled, outPending, pc>>

Receive == QueueMessage(MaxQueue, Messages)

\* messages of the interface's object piling up between two calls of Process
ReceiveBacklog ==
    QueueMessage(MaxBacklog, {m \in Messages : m.hasPath /\ strstr(m.path, mInterfaceName)})

(* The property-changed signals wpantund sends for the interface, with the *)
(* values a property can carry.                                            *)

\* the bytes 1, 2, ..., n
Ramp(n) == [k \in 1..n |-> k]

\* the bodies of datagrams: short ones, and short ones behind as many zero
\* bytes as make aLength, a uint16_t, nearly its largest
LongPads == {0, 65532}
StreamBodies == SeqsUpTo(Bytes, MaxBody)

\* a datagram as TmfProxySend encodes it (the zero bytes, the rest of the
\* body, the locator and the port), and arrays too short to hold the locator
\* and the port
StreamValues ==
    {PaddedArrayArg(n, EncodeStream(b, l, p)) :
        n \in LongPads, b \in StreamBodies, l \in Words, p \in Ports}
    \cup {ArrayArg(Ramp(n)) : n \in 0..3}

kWPANTUNDProperty_NCPVersion == "NCP:Version"

PropertyValues(key) ==
    IF key = kWPANTUNDProperty_TmfProxyStream THEN StreamValues
    ELSE IF key = kWPANTUNDProperty_NCPState
    THEN {StringArg("associated"), StringArg("offline")}
    ELSE IF key = kWPANTUNDProperty_NetworkName THEN {StringArg("net")}
    ELSE IF key = kWPANTUNDProperty_NetworkXPANID
    THEN {UInt64Arg(Ramp(kSizeExtPanId))}
         \cup {ArrayArg(Ramp(n)) : n \in {0, kSizeExtPanId - 1, kSizeExtPanId,
                                          kSizeExtPanId + 1}}
    ELSE IF key = kWPANTUNDProperty_NetworkPSKc
    THEN {ArrayArg(Ramp(n)) : n \in {0, kSizePSKc - 1, kSizePSKc, kSizePSKc + 1}}
    ELSE {StringArg("1.0")}

EventProperties ==
    {kWPANTUNDProperty_NCPState, kWPANTUNDProperty_NetworkName,
     kWPANTUNDProperty_NetworkXPANID, kWPANTUNDProperty_NetworkPSKc}

DecodedProperties == EventProperties \cup {kWPANTUNDProperty_TmfProxyStream}

Properties == DecodedProperties \cup {kWPANTUNDProperty_NCPVersion}

Signal(sender, ifname, key, value) ==
    Message(sender, TRUE, ObjectPath(ifname), TRUE, <<StringArg(key), value>>)

\* libdbus queues a property-changed signal of the interface; the filter
\* decodes each signal on its own, so they are taken one at a time
ReceiveSignal ==
    QueueMessage(1,
                 UNION {{Signal(s, mInterfaceName, k, v) :
                            s \in DaemonNames, v \in PropertyValues(k)} :
                        k \in Properties})

\* dbus_connection_read_write_dispatch(mDBus, 0) with a message queued
DispatchOne ==
    /\ alive = "live"
    /\ pc = "drain"
    /\ incoming # <<>>
    /\ LET m == Head(incoming)
           restart == NameChanged(m, mInterfaceName, mInterfaceDBusName)
           short == /\ m.isPropChanged
                    /\ Len(m.args) > 1
                    /\ m.args[1].str = kWPANTUNDProperty_TmfProxyStream
                    /\ Count(m.args[2]) < 4
       IN \E lk \in IF restart THEN Lookups ELSE {[ok |-> FALSE, name |-> "keep"]},
             e \in IF restart THEN LibOutcomes ELSE {NoFault},
             u \in IF short THEN OutOfBounds ELSE {[oob |-> 0, crash |-> FALSE]} :
            /\ ~lk.ok => e = NoFault
            /\ LET h == DoHandlePropertyChangedSignal(mDBus, mInterfaceName,
                         mInterfaceDBusName, mInterfaceDBusPath, m, lk, e, u)
               IN /\ Apply([h.start EXCEPT !.crash = h.crash])
                  /\ last' = [Record("Filter", h.start) EXCEPT
                                !.starts = h.starts, !.msg = m, !.result = h.result,
                                !.events = h.events, !.parseRet = h.parseRet,
                                !.decoded = h.decoded, !.queued = last.queued,
                                !.filtered = Append(last.filtered, m)]
    /\ incoming' = Tail(incoming)
    /\ UNCHANGED <<mEui64, mInterfaceName, mDBus, mWatches, busEnabled, pc>>

-----------------------------------------------------------------------------
(* The synchronous property requests: RequestEvent, RequestProperty,       *)
(* GetProperty and GetEui64.  A reply is a message whose first argument is *)
(* wpantund's status and whose second is the property's value.             *)

kWPANTUNDProperty_NCPHardwareAddress == "NCP:HardwareAddress"

\* the status as the int32 wpantund writes
StatusArg(status) == [type |-> "i", str |-> "", pad |-> 0, bytes |-> <<status>>]

Reply(args) == [isNull |-> FALSE, args |-> args]

\* SPINEL_STATUS_OK and SPINEL_STATUS_FAILURE
Statuses == {SPINEL_STATUS_OK, 1}

\* what a request for key can get: no reply (an error or the timeout), a
\* reply without arguments, a status with a value
Replies(key) ==
    {NoReply, Reply(<<>>)}
    \cup {Reply(<<StatusArg(st), v>>) : st \in Statuses, v \in PropertyValues(key)}

\* dbus_connection_send_with_reply_and_block(mDBus, message, timeout, &error):
\* the reply, or the process dies (a NULL connection dereferenced when the
\* argument checks are compiled out)
dbus_connection_send_with_reply_and_block(connection, e, reply) ==
    IF connection = NULL THEN [crash |-> ~e.chk, reply |-> NoReply]
    ELSE [crash |-> FALSE, reply |-> reply]

Events ==
    {"kEventExtPanId", "kEventThreadState", "kEventNetworkName", "kEventPSKc",
     "kEventTmfProxyStream"}

\* the switch of RequestEvent: the property of an event, NULL for any other
KeyOf(aEvent) ==
    IF aEvent = "kEventExtPanId" THEN kWPANTUNDProperty_NetworkXPANID
    ELSE IF aEvent = "kEventThreadState" THEN kWPANTUNDProperty_NCPState
    ELSE IF aEvent = "kEventNetworkName" THEN kWPANTUNDProperty_NetworkName
    ELSE IF aEvent = "kEventPSKc" THEN kWPANTUNDProperty_NetworkPSKc
    ELSE NULL

Requested(ret, errno, parsed, decoded, requests, crash) ==
    [ret |-> ret, errno |-> errno, events |-> parsed.events, parseRet |-> parsed.ret,
     decoded |-> decoded, requests |-> requests, crash |-> crash \/ parsed.crash]

NothingParsed == Parsed(OTBR_ERROR_NONE, <<>>, FALSE)

\* the iterator left on the status: dbus_message_iter_next not called
ReplyValueUnadvanced(got) == got.args[1]

\* dbus_message_iter_next(&iter): the argument after the status
ReplyValue(got) == IF Len(got.args) > 1 THEN got.args[2] ELSE NoArg

DoRequestEvent(conn, name, path, aEvent, e, reply) ==
    LET key == KeyOf(aEvent)
    IN IF key = NULL
       THEN Requested(OTBR_ERROR_ERRNO, "EINVAL", NothingParsed, FALSE, 0, FALSE)
       ELSE IF ~dbus_message_new_method_call(name, path, e)
       THEN Requested(OTBR_ERROR_ERRNO, "ENOMEM", NothingParsed, FALSE, 0, FALSE)
       ELSE IF e.oom = "append"
       THEN Requested(OTBR_ERROR_ERRNO, "EINVAL", NothingParsed, FALSE, 0, FALSE)
       ELSE LET blocked == dbus_connection_send_with_reply_and_block(conn, e, reply)
                got == blocked.reply
                sent == IF conn = NULL THEN 0 ELSE 1
            IN IF blocked.crash
               THEN Requested(OTBR_ERROR_ERRNO, "-", NothingParsed, FALSE, 0, TRUE)
               ELSE IF got.isNull
               THEN Requested(OTBR_ERROR_DBUS, "-", NothingParsed, FALSE, sent, FALSE)
               ELSE IF got.args = <<>>
               THEN Requested(OTBR_ERROR_ERRNO, "ENOENT", NothingParsed, FALSE, sent, FALSE)
               ELSE IF got.args[1].bytes[1] # SPINEL_STATUS_OK
               THEN Requested(OTBR_ERROR_ERRNO, "EREMOTEIO", NothingParsed, FALSE, sent,
                              FALSE)
               ELSE LET parsed == ParseEvent(key, ReplyValue(got),
                                             [oob |-> 0, crash |-> FALSE])
                    IN Requested(parsed.ret, "-", parsed, TRUE, sent, FALSE)

\* the replies the bus can deliver: wpantund answers only a request that
\* reaches it
Answers(key) ==
    IF mDBus = NULL \/ mInterfaceDBusName = "" \/ mInterfaceDBusPath = Uninit
    THEN {NoReply}
    ELSE Replies(key)

RequestEvent ==
    /\ Callable
    /\ \E aEvent \in Events, e \in LibOutcomes :
         \E reply \in IF KeyOf(aEvent) = NULL THEN {NoReply}
                       ELSE Answers(KeyOf(aEvent)) :
            LET r == DoRequestEvent(mDBus, mInterfaceDBusName, mInterfaceDBusPath,
                                    aEvent, e, reply)
            IN /\ alive' = IF r.crash THEN "crashed" ELSE alive
               \* the blocking call flushes what was pending before it waits
               /\ outPending' = (outPending /\ r.requests = 0)
               /\ last' = [Blank EXCEPT !.op = "RequestEvent", !.ret = r.ret,
                              !.errno = r.errno, !.events = r.events,
                              !.parseRet = r.parseRet, !.decoded = r.decoded,
                              !.requests = r.requests, !.aEvent = aEvent,
                              !.reply = reply,
                              !.nameBefore = mInterfaceDBusName, !.dbusBefore = mDBus]
    /\ UNCHANGED <<mEui64, mInterfaceName, mDBus, mInterfaceDBusName,
                   mInterfaceDBusPath, mWatches, busEnabled, incoming, pc>>

(* ControllerWpantund::RequestProperty *)

DoRequestProperty(conn, name, path, e, reply) ==
    IF ~dbus_message_new_method_call(name, path, e)
    THEN [crash |-> FALSE, reply |-> NoReply]
    ELSE IF e.oom = "append"
    THEN [crash |-> FALSE, reply |-> NoReply]
    ELSE dbus_connection_send_with_reply_and_block(conn, e, reply)

(* ControllerWpantund::GetProperty *)

\* memcpy(aBuffer, buffer, aSize) into a buffer of Len(aBuffer) bytes: the
\* bytes the buffer holds afterwards
memcpy(aBuffer, buffer, aSize) ==
    [k \in 1..Len(aBuffer) |-> IF k <= aSize THEN buffer[k] ELSE aBuffer[k]]

Got(ret, errno, buffer, size, requests, overrun, crash) ==
    [ret |-> ret, errno |-> errno, buffer |-> buffer, size |-> size,
     requests |-> requests, overrun |-> overrun, crash |-> crash]

\* dbus_message_get_args(reply, &error, DBUS_TYPE_INT32, &status,
\*                       DBUS_TYPE_ARRAY, DBUS_TYPE_BYTE, &buffer, &count, ...)
dbus_message_get_args(reply) ==
    /\ Len(reply.args) = 2
    /\ reply.args[1].type = "i"
    /\ reply.args[2].type = "ay"

\* u.crash: a write past the end of aBuffer kills the process
DoGetProperty(conn, name, path, aBuffer, e, reply, u) ==
    LET requested == DoRequestProperty(conn, name, path, e, reply)
        got == requested.reply
        requests == IF conn # NULL /\ dbus_message_new_method_call(name, path, e)
                       /\ e.oom # "append"
                    THEN 1 ELSE 0
    IN IF requested.crash
       THEN Got(OTBR_ERROR_ERRNO, "-", aBuffer, 0, 0, FALSE, TRUE)
       ELSE IF got.isNull
       THEN Got(OTBR_ERROR_ERRNO, "-", aBuffer, 0, requests, FALSE, FALSE)
       ELSE IF ~dbus_message_get_args(got)
       THEN Got(OTBR_ERROR_ERRNO, "EINVAL", aBuffer, 0, requests, FALSE, FALSE)
       ELSE IF got.args[1].bytes[1] # SPINEL_STATUS_OK
       THEN Got(OTBR_ERROR_ERRNO, "EINVAL", aBuffer, 0, requests, FALSE, FALSE)
       ELSE LET count == Count(got.args[2])
                overrun == count > Len(aBuffer)
            IN Got(OTBR_ERROR_NONE, "-", memcpy(aBuffer, got.args[2].bytes, count),
                   count, requests, overrun, overrun /\ u.crash)

(* ControllerWpantund::GetEui64 *)

\* the hardware addresses wpantund can report, whole and malformed
Eui64Values ==
    {ArrayArg(Ramp(n)) : n \in {0, kSizeEui64 - 1, kSizeEui64, kSizeEui64 + 1}}
    \cup {ArrayArg([k \in 1..kSizeEui64 |-> 2 * k])}
    \cup {StringArg("eui64")}

Eui64Replies ==
    {NoReply, Reply(<<>>)}
    \cup {Reply(<<StatusArg(st), v>>) : st \in Statuses, v \in Eui64Values}

\* ndebug: assert is compiled out
DoGetEui64(conn, name, path, eui, e, reply, u, ndebug) ==
    LET g == DoGetProperty(conn, name, path, eui, e, reply, u)
    IN IF g.crash THEN [g EXCEPT !.ret = NULL]
       ELSE IF g.ret # OTBR_ERROR_NONE THEN [g EXCEPT !.ret = NULL]
       ELSE IF g.size # kSizeEui64 /\ ~ndebug
       THEN [g EXCEPT !.ret = NULL, !.crash = TRUE]
       ELSE [g EXCEPT !.ret = "mEui64"]

GetEui64 ==
    /\ Callable
    /\ \E e \in LibOutcomes, u \in {[crash |-> c] : c \in BOOLEAN}, ndebug \in BOOLEAN :
         \E reply \in IF mDBus = NULL \/ mInterfaceDBusName = ""
                           \/ mInterfaceDBusPath = Uninit
                       THEN {NoReply} ELSE Eui64Replies :
            LET r == DoGetEui64(mDBus, mInterfaceDBusName, mInterfaceDBusPath, mEui64,
                                e, reply, u, ndebug)
            IN /\ mEui64' = r.buffer
               /\ alive' = IF r.crash THEN "crashed" ELSE alive
               /\ outPending' = (outPending /\ r.requests = 0)
               /\ last' = [Blank EXCEPT !.op = "GetEui64", !.euiRet = r.ret,
                              !.errno = r.errno, !.requests = r.requests,
                              !.reply = reply, !.euiBefore = mEui64,
                              !.nameBefore = mInterfaceDBusName, !.dbusBefore = mDBus]
    /\ UNCHANGED <<mInterfaceName, mDBus, mInterfaceDBusName,
                   mInterfaceDBusPath, mWatches, busEnabled, incoming, pc>>

-----------------------------------------------------------------------------
(* The watch registry: AddDBusWatch, RemoveDBusWatch, ToggleDBusWatch.     *)
(* A watch is libdbus' object: its descriptor and its interest flags.      *)

ValidFds == {3, 4}
FlagSets == {{DBUS_WATCH_READABLE}, {DBUS_WATCH_WRITABLE},
             {DBUS_WATCH_READABLE, DBUS_WATCH_WRITABLE}}

\* a watch on a descriptor, with any interest, or a watch whose descriptor
\* libdbus has invalidated
Watches ==
    [fd : ValidFds, flags : FlagSets] \cup [fd : {-1}, flags : {{DBUS_WATCH_READABLE}}]

dbus_watch_get_unix_fd(watch) == watch.fd
dbus_watch_get_flags(watch) == watch.flags

\* map[key] = value
Put(map, key, value) ==
    [k \in DOMAIN map \cup {key} |-> IF k = key THEN value ELSE map[k]]

\* map.erase(key)
Erase(map, key) == [k \in DOMAIN map \ {key} |-> map[k]]

WatchCallbacks == alive = "live" /\ mDBus # NULL

AddDBusWatch ==
    /\ WatchCallbacks
    /\ Cardinality(DOMAIN busEnabled) < MaxWatches
    /\ \E aWatch \in Watches \ DOMAIN busEnabled, enabled \in BOOLEAN :
         /\ busEnabled' = Put(busEnabled, aWatch, enabled)
         /\ mWatches' = Put(mWatches, aWatch, TRUE)
    /\ last' = [Blank EXCEPT !.op = "AddDBusWatch"]
    /\ UNCHANGED <<mEui64, alive, mInterfaceName, mDBus, mInterfaceDBusName,
                   mInterfaceDBusPath, incoming, outPending, pc>>

RemoveDBusWatch ==
    /\ WatchCallbacks
    /\ \E aWatch \in DOMAIN busEnabled :
         /\ busEnabled' = Erase(busEnabled, aWatch)
         /\ mWatches' = Erase(mWatches, aWatch)
    /\ last' = [Blank EXCEPT !.op = "RemoveDBusWatch"]
    /\ UNCHANGED <<mEui64, alive, mInterfaceName, mDBus, mInterfaceDBusName,
                   mInterfaceDBusPath, incoming, outPending, pc>>

ToggleDBusWatch ==
    /\ WatchCallbacks
    /\ \E aWatch \in DOMAIN busEnabled :
         /\ busEnabled' = Put(busEnabled, aWatch, ~busEnabled[aWatch])
         /\ mWatches' = Put(mWatches, aWatch, ~busEnabled[aWatch])
    /\ last' = [Blank EXCEPT !.op = "ToggleDBusWatch"]
    /\ UNCHANGED <<mEui64, alive, mInterfaceName, mDBus, mInterfaceDBusName,
                   mInterfaceDBusPath, incoming, outPending, pc>>

-----------------------------------------------------------------------------
(* ControllerWpantund::UpdateFdSet *)

\* an fd_set is the set of the descriptors in it
FdSets(read, write, error, max) ==
    [read |-> read, write |-> write, error |-> error, max |-> max]

\* the descriptor put in the read set whatever the watch's interest
UpdateFdSetBodyAlwaysRead(it, enabled, pending, acc) ==
    LET flags == dbus_watch_get_flags(it)
        fd == dbus_watch_get_unix_fd(it)
    IN IF ~enabled THEN acc
       ELSE IF fd < 0 THEN acc
       ELSE FdSets(acc.read \cup {fd},
                   IF DBUS_WATCH_WRITABLE \in flags /\ pending
                   THEN acc.write \cup {fd} ELSE acc.write,
                   acc.error \cup {fd},
                   IF fd > acc.max THEN fd ELSE acc.max)

\* one pass of the loop body, for the watch it
UpdateFdSetBody(it, enabled, pending, acc) ==
    LET flags == dbus_watch_get_flags(it)
        fd == dbus_watch_get_unix_fd(it)
    IN IF ~enabled THEN acc
       ELSE IF fd < 0 THEN acc
       ELSE FdSets(IF DBUS_WATCH_READABLE \in flags THEN acc.read \cup {fd} ELSE acc.read,
                   IF DBUS_WATCH_WRITABLE \in flags /\ pending
                   THEN acc.write \cup {fd} ELSE acc.write,
                   acc.error \cup {fd},
                   IF fd > acc.max THEN fd ELSE acc.max)

RECURSIVE UpdateFdSetLoop(_, _, _, _)
UpdateFdSetLoop(todo, map, pending, acc) ==
    IF todo = {} THEN acc
    ELSE LET it == CHOOSE w \in todo : TRUE
         IN UpdateFdSetLoop(todo \ {it}, map, pending,
                            UpdateFdSetBody(it, map[it], pending, acc))

DoUpdateFdSet(map, pending, in) == UpdateFdSetLoop(DOMAIN map, map, pending, in)

\* descriptors of the agent's other components, already in the sets
OtherFds == {5}

\* the sets the caller passes in, and a maximum no smaller than what is in them
FdSetInputs ==
    {in \in [read : SUBSET OtherFds, write : SUBSET OtherFds,
             error : SUBSET OtherFds, max : {-1} \cup OtherFds] :
        \A fd \in in.read \cup in.write \cup in.error : fd <= in.max}

\* the main loop calls UpdateFdSet and Process on an initialised controller
Looping == Callable /\ mDBus # NULL

\* the pending outbound data written out while the sets are filled
UpdateFdSetFlushing ==
    /\ Looping
    /\ \E in \in FdSetInputs :
         LET out == DoUpdateFdSet(mWatches, outPending, in)
         IN last' = [Blank EXCEPT !.op = "UpdateFdSet",
                        !.nameBefore = mInterfaceDBusName, !.dbusBefore = mDBus,
                        !.inRead = in.read, !.inWrite = in.write,
                        !.inError = in.error, !.inMax = in.max,
                        !.outRead = out.read, !.outWrite = out.write,
                        !.outError = out.error, !.outMax = out.max]
    /\ outPending' = FALSE
    /\ UNCHANGED <<mEui64, alive, mInterfaceName, mDBus, mInterfaceDBusName,
                   mInterfaceDBusPath, mWatches, busEnabled, incoming, pc>>

UpdateFdSet ==
    /\ Looping
    /\ \E in \in FdSetInputs :
         LET out == DoUpdateFdSet(mWatches, outPending, in)
         IN last' = [Blank EXCEPT !.op = "UpdateFdSet",
                        !.nameBefore = mInterfaceDBusName, !.dbusBefore = mDBus,
                        !.inRead = in.read, !.inWrite = in.write,
                        !.inError = in.error, !.inMax = in.max,
                        !.outRead = out.read, !.outWrite = out.write,
                        !.outError = out.error, !.outMax = out.max]
    /\ UNCHANGED <<mEui64, alive, mInterfaceName, mDBus, mInterfaceDBusName,
                   mInterfaceDBusPath, mWatches, busEnabled, incoming, outPending, pc>>

-----------------------------------------------------------------------------
(* ControllerWpantund::Process *)

\* the write test made only when the read test left the flags alone (else if)
ProcessFlagsElseIf(it, ready) ==
    LET fd == dbus_watch_get_unix_fd(it)
        f0 == dbus_watch_get_flags(it)
        f1 == IF DBUS_WATCH_READABLE \in f0 /\ fd \notin ready.read
              THEN f0 \ {DBUS_WATCH_READABLE}
              ELSE IF DBUS_WATCH_WRITABLE \in f0 /\ fd \notin ready.write
              THEN f0 \ {DBUS_WATCH_WRITABLE} ELSE f0
    IN IF fd \in ready.error THEN f1 \cup {DBUS_WATCH_ERROR} ELSE f1

\* the flags the loop body hands to dbus_watch_handle for the watch it
ProcessFlags(it, ready) ==
    LET fd == dbus_watch_get_unix_fd(it)
        f0 == dbus_watch_get_flags(it)
        f1 == IF DBUS_WATCH_READABLE \in f0 /\ fd \notin ready.read
              THEN f0 \ {DBUS_WATCH_READABLE} ELSE f0
        f2 == IF DBUS_WATCH_WRITABLE \in f1 /\ fd \notin ready.write
              THEN f1 \ {DBUS_WATCH_WRITABLE} ELSE f1
    IN IF fd \in ready.error THEN f2 \cup {DBUS_WATCH_ERROR} ELSE f2

RECURSIVE ProcessLoop(_, _, _, _)
ProcessLoop(todo, map, ready, handed) ==
    IF todo = {} THEN handed
    ELSE LET it == CHOOSE w \in todo : TRUE
         IN ProcessLoop(todo \ {it}, map, ready,
                IF ~map[it] THEN handed
                ELSE IF dbus_watch_get_unix_fd(it) < 0 THEN handed
                ELSE handed \cup {<<it, ProcessFlags(it, ready)>>})

DoProcessWatches(map, ready) == ProcessLoop(DOMAIN map, map, ready, {})

\* the descriptors Process looks up in the ready sets
WatchedFds == {w.fd : w \in DOMAIN mWatches} \ {-1}

\* the watch loop; dbus_watch_handle with the writable flag lets libdbus
\* write out what it has pending, wholly or in part
Process ==
    /\ Looping
    /\ \E r \in SUBSET WatchedFds, w \in SUBSET WatchedFds, x \in SUBSET WatchedFds :
         LET ready == FdSets(r, w, x, -1)
             handed == DoProcessWatches(mWatches, ready)
             wrote == \E h \in handed : DBUS_WATCH_WRITABLE \in h[2]
         IN /\ last' = [Blank EXCEPT !.op = "Process",
                           !.nameBefore = mInterfaceDBusName, !.dbusBefore = mDBus,
                           !.inRead = r, !.inWrite = w, !.inError = x,
                           !.handed = handed, !.queued = incoming]
            /\ outPending' \in IF outPending /\ wrote THEN BOOLEAN ELSE {outPending}
    /\ pc' = "drain"
    /\ UNCHANGED <<mEui64, alive, mInterfaceName, mDBus, mInterfaceDBusName,
                   mInterfaceDBusPath, mWatches, busEnabled, incoming>>

\* the drain loop left after its first pass
ProcessReturnEarly ==
    /\ alive = "live"
    /\ pc = "drain"
    /\ last.op = "Filter" \/ incoming = <<>>
    /\ pc' = "idle"
    /\ last' = [Blank EXCEPT !.op = "ProcessReturn", !.queued = last.queued,
                             !.filtered = last.filtered]
    /\ UNCHANGED <<mEui64, alive, mInterfaceName, mDBus, mInterfaceDBusName,
                   mInterfaceDBusPath, mWatches, busEnabled, incoming, outPending>>

\* the drain loop ends: DBUS_DISPATCH_DATA_REMAINS no longer holds
ProcessReturn ==
    /\ alive = "live"
    /\ pc = "drain"
    /\ incoming = <<>>
    /\ pc' = "idle"
    /\ last' = [Blank EXCEPT !.op = "ProcessReturn", !.queued = last.queued,
                             !.filtered = last.filtered]
    /\ UNCHANGED <<mEui64, alive, mInterfaceName, mDBus, mInterfaceDBusName,
                   mInterfaceDBusPath, mWatches, busEnabled, incoming, outPending>>

-----------------------------------------------------------------------------
(* The controller's life: construction, Init, the proxy session, dispatch. *)

Next ==
    \/ Init
    \/ Destructor
    \/ TmfProxyStart
    \/ TmfProxyStop
    \/ TmfProxySend
    \/ Receive
    \/ Process
    \/ DispatchOne
    \/ ProcessReturn

Spec == ControllerWpantund /\ [][Next]_vars

(* The readiness loop of a controller constructed for one interface.  Its  *)
(* first half: the watch registry and UpdateFdSet, with the proxy          *)
(* session's sends as the outbound data.                                   *)

ControllerWpantundLoop == ControllerWpantund /\ mInterfaceName = <<"w", "1">>

NextFd ==
    \/ Init
    \/ TmfProxyStart
    \/ AddDBusWatch
    \/ RemoveDBusWatch
    \/ ToggleDBusWatch
    \/ UpdateFdSet

SpecFd == ControllerWpantundLoop /\ [][NextFd]_vars

(* The readiness loop's second half: the watch registry and Process. *)

NextProcess ==
    \/ Init
    \/ TmfProxyStart
    \/ AddDBusWatch
    \/ RemoveDBusWatch
    \/ ToggleDBusWatch
    \/ Process
    \/ ProcessReturn

SpecProcess == ControllerWpantundLoop /\ [][NextProcess]_vars

(* Process with messages queued.  Process is straight-line code: once in   *)
(* its drain loop it goes on dispatching, and returns when nothing remains. *)

NextDrain ==
    \/ Init
    \/ TmfProxyStart
    \/ ReceiveBacklog
    \/ Process
    \/ DispatchOne
    \/ ProcessReturn

SpecDrain ==
    /\ ControllerWpantundLoop
    /\ [][NextDrain]_vars
    /\ WF_vars(DispatchOne)
    /\ WF_vars(ProcessReturn)

(* The property-changed signals of a bound interface and their decoding. *)

NextCodec ==
    \/ Init
    \/ TmfProxyStart
    \/ ReceiveSignal
    \/ Process
    \/ DispatchOne
    \/ ProcessReturn

SpecCodec == ControllerWpantundLoop /\ [][NextCodec]_vars

(* The synchronous property requests of a session. *)

NextRequest ==
    \/ Init
    \/ TmfProxyStart
    \/ TmfProxyStop
    \/ RequestEvent
    \/ GetEui64

SpecRequest == ControllerWpantundLoop /\ [][NextRequest]_vars

-----------------------------------------------------------------------------
(* Properties. *)

ProxyToggle(name, path, aEnable) ==
    PropSet(name, path, kWPANTUNDProperty_TmfProxyEnabled, "b",
            <<IF aEnable THEN 1 ELSE 0>>)

\* C1: handling one message, the filter calls TmfProxyStart exactly once when
\* the message has a sender that differs from the bound bus name and a path
\* that contains the interface name, signal or not, and not at all otherwise.
C1_OneStartPerNameChange ==
    last.op = "Filter" =>
        LET m == last.msg
            changed == /\ m.sender # NULL
                       /\ m.sender # last.nameBefore
                       /\ m.hasPath
                       /\ \E k \in 1..Len(m.path) :
                             \E n \in k..Len(m.path) : SubSeq(m.path, k, n) = mInterfaceName
        IN last.starts = IF changed THEN 1 ELSE 0

\* a message that is no property-changed signal, from a new sender, on the
\* interface's path, made the filter call TmfProxyStart once
C1_Witness ==
    /\ last.op = "Filter"
    /\ ~last.msg.isPropChanged
    /\ last.nameBefore \in DaemonNames
    /\ last.msg.sender \in DaemonNames \ {last.nameBefore}
    /\ last.starts = 1

\* C2: a proxy enable toggle or a proxy datagram is put on the bus only while
\* the Daemon Binding is non-empty.
C2_SendsOnlyWhenBound ==
    last.sent # <<>> => mInterfaceDBusName # ""

\* C3: TmfProxyStart (called directly or by the filter) sends the enable
\* toggle only when its lookup succeeded, and then to the bus name and object
\* path it has just resolved; when the lookup fails it returns ENODEV and
\* sends nothing.
C3_StartEnablesResolvedBinding ==
    last.starts = 1 =>
        /\ last.sent # <<>> =>
              /\ last.lookupOk
              /\ mInterfaceDBusName \in DaemonNames
              /\ last.sent = <<ProxyToggle(mInterfaceDBusName,
                                           ObjectPath(mInterfaceName), TRUE)>>
        /\ ~last.lookupOk =>
              /\ last.ret = OTBR_ERROR_ERRNO
              /\ last.errno = "ENODEV"
              /\ last.sent = <<>>

\* TmfProxyStart on a bound controller resolved another bus name and enabled
\* the proxy there
C3_Witness ==
    /\ last.op = "TmfProxyStart"
    /\ last.nameBefore \in DaemonNames
    /\ mInterfaceDBusName \in DaemonNames \ {last.nameBefore}
    /\ last.ret = OTBR_ERROR_NONE
    /\ last.sent # <<>>

\* C4: TmfProxyStop on a controller whose binding was never resolved (the
\* object path was never written) returns success, sends nothing, makes no
\* call on the bus, and leaves the binding and the bus handle as they were.
C4_StopBeforeStartIsNoOp ==
    (last.op = "TmfProxyStop" /\ mInterfaceDBusPath = Uninit) =>
        /\ last.ret = OTBR_ERROR_NONE
        /\ last.sent = <<>>
        /\ last.nullSends = 0
        /\ mInterfaceDBusName = last.nameBefore
        /\ mInterfaceDBusName = ""
        /\ mDBus = last.dbusBefore
        /\ alive = "live"

\* TmfProxyStop on an initialised controller that was never bound
C4_Witness ==
    /\ last.op = "TmfProxyStop"
    /\ mInterfaceDBusPath = Uninit
    /\ mDBus # NULL

\* C5 as claimed: after a TmfProxyStop that disabled the proxy of a resolved
\* binding the bus name is empty.
C5_StopClearsBinding ==
    (last.op = "TmfProxyStop" /\ last.nameBefore # "" /\ last.ret = OTBR_ERROR_NONE)
        => mInterfaceDBusName = ""

\* C5: TmfProxyStop on a resolved binding leaves the bus name as it was, and
\* what it sends is the disable toggle to that name.
C5_StopKeepsBinding ==
    (last.op = "TmfProxyStop" /\ last.nameBefore # "") =>
        /\ mInterfaceDBusName = last.nameBefore
        /\ last.sent # <<>> =>
              last.sent = <<ProxyToggle(last.nameBefore, mInterfaceDBusPath, FALSE)>>

\* TmfProxyStop disabled the proxy of a bound controller
C5_Witness ==
    /\ last.op = "TmfProxyStop"
    /\ last.nameBefore \in DaemonNames
    /\ last.ret = OTBR_ERROR_NONE
    /\ last.sent # <<>>

\* C6: the destructor sends the disable toggle only if a binding exists,
\* makes no send on a bus handle that is NULL, and leaves the handle released.
C6_TeardownSafe ==
    last.op = "Destructor" =>
        /\ last.sent # <<>> => last.nameBefore # ""
        /\ last.nullSends = 0
        /\ alive = "destroyed"
        /\ mDBus = NULL

\* C7: Init returns success exactly when the bus was reached and every step
\* succeeded; then it holds the connection and has made its calls in order,
\* the match rule before the filter.  Otherwise it returns the bus error and
\* mDBus is NULL.
C7_InitAllOrNothing ==
    last.op = "Init" =>
        LET i == last.init
            all == /\ i.starter \/ i.system
                   /\ i.register
                   /\ i.reply = DBUS_REQUEST_NAME_REPLY_PRIMARY_OWNER
                   /\ i.watch /\ i.match /\ i.filter
            order == <<"dbus_bus_register", "dbus_bus_request_name",
                       "dbus_connection_set_watch_functions", "dbus_bus_add_match",
                       "dbus_connection_add_filter">>
        IN /\ last.ret = OTBR_ERROR_NONE <=> all
           /\ last.ret # OTBR_ERROR_NONE => (last.ret = OTBR_ERROR_DBUS /\ mDBus = NULL)
           /\ last.ret = OTBR_ERROR_NONE =>
                 /\ mDBus # NULL
                 /\ last.steps \in {<<"dbus_bus_get(STARTER)">> \o order,
                                    <<"dbus_bus_get(STARTER)", "dbus_bus_get(SYSTEM)">>
                                        \o order}

\* Init got a connection, failed at its last step and released the connection
C7_Witness ==
    /\ last.op = "Init"
    /\ last.ret = OTBR_ERROR_DBUS
    /\ ~last.init.filter
    /\ last.steps[Len(last.steps)] = "dbus_connection_unref"
    /\ mDBus = NULL

\* the enabled watches of the registry that have a descriptor
Polled == {w \in DOMAIN mWatches : mWatches[w] /\ w.fd >= 0}

\* C8: Process hands to dbus_watch_handle exactly the enabled watches that
\* have a descriptor, each once, with its read interest kept exactly if the
\* descriptor is in the ready read set, its write interest kept exactly if it
\* is in the ready write set, and the error flag exactly if it is in the
\* error set.
C8_ProcessHandsReadyFlags ==
    last.op = "Process" =>
        /\ {h[1] : h \in last.handed} = Polled
        /\ \A h \in last.handed :
              LET fd == h[1].fd
              IN /\ DBUS_WATCH_READABLE \in h[2] <=>
                       (DBUS_WATCH_READABLE \in h[1].flags /\ fd \in last.inRead)
                 /\ DBUS_WATCH_WRITABLE \in h[2] <=>
                       (DBUS_WATCH_WRITABLE \in h[1].flags /\ fd \in last.inWrite)
                 /\ DBUS_WATCH_ERROR \in h[2] <=> fd \in last.inError
        /\ Cardinality(last.handed) = Cardinality(Polled)

\* a watch with both interests, ready to write and not to read, was handed
\* the writable flag alone while a disabled watch was left out
C8_Witness ==
    /\ last.op = "Process"
    /\ \E w \in DOMAIN mWatches : ~mWatches[w] /\ w.fd >= 0
    /\ \E h \in last.handed :
          /\ h[1].flags = {DBUS_WATCH_READABLE, DBUS_WATCH_WRITABLE}
          /\ h[1].fd \notin last.inRead
          /\ h[1].fd \in last.inWrite
          /\ h[2] = {DBUS_WATCH_WRITABLE}

\* C9 as claimed: UpdateFdSet puts the descriptor of every enabled watch in
\* the read set and in the error set whatever its interest, in the write set
\* only if outbound data is pending, and no descriptor that only disabled
\* watches have in any set.
C9_AlwaysReadAndError ==
    last.op = "UpdateFdSet" =>
        /\ \A w \in Polled :
              /\ w.fd \in last.outRead
              /\ w.fd \in last.outError
              /\ w.fd \in last.outWrite => outPending
        /\ \A w \in DOMAIN mWatches :
              (~mWatches[w] /\ w.fd \notin {v.fd : v \in Polled}) =>
                  w.fd \notin last.outRead \cup last.outWrite \cup last.outError

\* C9: UpdateFdSet adds to the error set the descriptors of the enabled
\* watches, to the read set those of the enabled watches with read interest,
\* to the write set, if outbound data is pending, those of the enabled
\* watches with write interest, and nothing else.
C9_SetsFollowInterest ==
    last.op = "UpdateFdSet" =>
        /\ last.outError = last.inError \cup {w.fd : w \in Polled}
        /\ last.outRead = last.inRead \cup
              {w.fd : w \in {v \in Polled : DBUS_WATCH_READABLE \in v.flags}}
        /\ last.outWrite = last.inWrite \cup
              (IF outPending
               THEN {w.fd : w \in {v \in Polled : DBUS_WATCH_WRITABLE \in v.flags}}
               ELSE {})

\* with outbound data pending, the descriptor of an enabled watch that has
\* write interest only went to the write and error sets and not to the read
\* set, and a disabled watch's descriptor went nowhere
C9_Witness ==
    /\ last.op = "UpdateFdSet"
    /\ outPending
    /\ \E w \in Polled :
          /\ w.flags = {DBUS_WATCH_WRITABLE}
          /\ w.fd \in last.outWrite
          /\ w.fd \in last.outError
          /\ w.fd \notin last.outRead
    /\ \E w \in DOMAIN mWatches :
          /\ ~mWatches[w]
          /\ w.fd >= 0
          /\ w.fd \notin last.outRead \cup last.outWrite \cup last.outError

Largest(S) == CHOOSE x \in S : \A y \in S : y <= x

\* C10: a call of UpdateFdSet changes nothing of the controller or the bus:
\* the registry, the binding, the handle, the pending outbound data and the
\* queued messages are as before, so that the same call made again gives the
\* same sets; and the maximum it gives is the largest of the one passed in
\* and the descriptors of the enabled watches.
C10_UpdateFdSetOnlyFillsSets ==
    [][last'.op = "UpdateFdSet" =>
          /\ UNCHANGED <<mEui64, alive, mInterfaceName, mDBus, mInterfaceDBusName,
                         mInterfaceDBusPath, mWatches, busEnabled, incoming,
                         outPending, pc>>
          /\ DoUpdateFdSet(mWatches', outPending',
                           FdSets(last'.inRead, last'.inWrite, last'.inError,
                                  last'.inMax))
             = FdSets(last'.outRead, last'.outWrite, last'.outError, last'.outMax)
          /\ last'.outMax = Largest({last'.inMax} \cup {w.fd : w \in Polled})
      ]_vars

\* UpdateFdSet with outbound data pending put a descriptor in the write set,
\* raised the maximum, and the data is still pending
C10_Witness ==
    /\ last.op = "UpdateFdSet"
    /\ outPending
    /\ last.outWrite # last.inWrite
    /\ last.outMax > last.inMax

\* the message the filter was last given is a property-changed signal for key
SignalFor(key) ==
    /\ last.op = "Filter"
    /\ last.msg.isPropChanged
    /\ Len(last.msg.args) = 2
    /\ last.msg.args[1].str = key

\* C11: a datagram round-trips: when the filter is given the array that
\* TmfProxySend encodes for a body B, a locator L and a port P as the value of
\* the proxy-datagram-stream property, ParseEvent emits one proxy-datagram
\* event carrying exactly B, L and P.
C11_StreamRoundTrips ==
    SignalFor(kWPANTUNDProperty_TmfProxyStream) =>
        \A n \in LongPads, b \in StreamBodies, l \in Words, p \in Ports :
            last.msg.args[2] = PaddedArrayArg(n, EncodeStream(b, l, p)) =>
                /\ Len(last.events) = 1
                /\ LET ev == last.events[1]
                   IN /\ ev.kind = "kEventTmfProxyStream"
                      /\ ev.len = n + Len(b)
                      /\ ev.pad = n
                      /\ SubSeq(ev.buf, 1, ev.len - ev.pad) = b
                      /\ ev.locator = l
                      /\ ev.port = p

\* C12: a proxy-datagram-stream value of fewer than 4 bytes is rejected:
\* ParseEvent returns the protocol error, emits no event, reads nothing
\* outside the array and computes no body length below zero.
C12_ShortStreamRejected ==
    (SignalFor(kWPANTUNDProperty_TmfProxyStream) /\ Count(last.msg.args[2]) < 4) =>
        /\ last.parseRet = OTBR_ERROR_DBUS
        /\ last.events = <<>>
        /\ alive = "live"

\* C13: an extended-PAN-id array of other than 8 bytes and a network-credential
\* array of other than 16 bytes fail with the protocol error and emit no
\* event; arrays of exactly 8 and 16 bytes are emitted as they are.
C13_SizedArrays ==
    \A key \in {kWPANTUNDProperty_NetworkXPANID, kWPANTUNDProperty_NetworkPSKc} :
        (SignalFor(key) /\ last.msg.args[2].type = "ay") =>
            LET arg == last.msg.args[2]
                size == IF key = kWPANTUNDProperty_NetworkXPANID
                        THEN kSizeExtPanId ELSE kSizePSKc
                kind == IF key = kWPANTUNDProperty_NetworkXPANID
                        THEN "kEventExtPanId" ELSE "kEventPSKc"
            IN IF Count(arg) = size
               THEN /\ last.parseRet = OTBR_ERROR_NONE
                    /\ last.events = <<[kind |-> kind, value |-> arg.bytes]>>
               ELSE /\ last.parseRet = OTBR_ERROR_DBUS
                    /\ last.events = <<>>

C13_Witness ==
    /\ SignalFor(kWPANTUNDProperty_NetworkXPANID)
    /\ last.msg.args[2].type = "ay"
    /\ Count(last.msg.args[2]) = kSizeExtPanId - 1
    /\ last.parseRet = OTBR_ERROR_DBUS
    /\ last.events = <<>>

\* what the filter does with the property-changed signal that the bound
\* daemon sends for key with value
Notified(key, value) ==
    DoHandlePropertyChangedSignal(mDBus, mInterfaceName, mInterfaceDBusName,
        mInterfaceDBusPath, Signal(mInterfaceDBusName, mInterfaceName, key, value),
        [ok |-> FALSE, name |-> "keep"], NoFault, [oob |-> 0, crash |-> FALSE])

\* C14: for NCP state, network name, extended PAN id and network credential,
\* a RequestEvent whose reply carries the success status and a value emits
\* the events, or fails with the decode error, that the filter produces for
\* the property-changed signal carrying that property and value; a reply
\* with another status emits no event and RequestEvent returns an error.
C14_RequestEventDecodesAsFilter ==
    (/\ last.op = "RequestEvent"
     /\ last.requests = 1
     /\ Len(last.reply.args) = 2) =>
        LET status == last.reply.args[1].bytes[1]
            n == Notified(KeyOf(last.aEvent), last.reply.args[2])
        IN IF status = SPINEL_STATUS_OK
           THEN /\ n.decoded
                /\ last.events = n.events
                /\ last.ret = n.parseRet
           ELSE /\ last.events = <<>>
                /\ last.ret # OTBR_ERROR_NONE

C14_Witness ==
    /\ last.op = "RequestEvent"
    /\ last.requests = 1
    /\ last.aEvent = "kEventExtPanId"
    /\ Len(last.reply.args) = 2
    /\ last.reply.args[1].bytes[1] = SPINEL_STATUS_OK
    /\ last.reply.args[2].type = "t"
    /\ last.events = <<[kind |-> "kEventExtPanId", value |-> Reverse(Ramp(kSizeExtPanId))]>>

\* all kSizeEui64 bytes of the buffer have been written
Whole(eui) == \A k \in 1..kSizeEui64 : eui[k] >= 0

\* C15: the hardware address is fetched at most once: a GetEui64 called when
\* the buffer already holds an address returns that address and puts no
\* request on the bus.
C15_Eui64FetchedOnce ==
    (last.op = "GetEui64" /\ Whole(last.euiBefore)) =>
        /\ last.requests = 0
        /\ last.euiRet = "mEui64"
        /\ mEui64 = last.euiBefore

\* the reply carries the success status and exactly kSizeEui64 bytes
WholeReply(reply) ==
    /\ ~reply.isNull
    /\ dbus_message_get_args(reply)
    /\ reply.args[1].bytes[1] = SPINEL_STATUS_OK
    /\ Count(reply.args[2]) = kSizeEui64

\* C16: mEui64 is either unwritten or holds the 8 bytes of a success reply: a
\* GetEui64 that gets no reply, another status or a byte count other than 8
\* leaves the buffer as it was.
C16_Eui64WholeOrUnwritten ==
    /\ mEui64 = NoEui64 \/ Whole(mEui64)
    /\ (last.op = "GetEui64" /\ ~(last.requests = 1 /\ WholeReply(last.reply))) =>
           mEui64 = last.euiBefore

\* C17: when Process returns nothing is left to dispatch: every message that
\* was queued when Process was called has gone through the filter once, in
\* the order queued, after the watch loop; and the drain loop ends.
C17_ProcessDrainsQueue ==
    /\ [](last.op = "ProcessReturn" =>
            /\ last.filtered = last.queued
            /\ incoming = <<>>)
    /\ [](last.op = "Filter" =>
            /\ pc = "drain"
            /\ last.filtered \o incoming = last.queued)
    /\ (pc = "drain" ~> pc = "idle")

C17_Witness ==
    /\ last.op = "ProcessReturn"
    /\ Len(last.queued) = MaxBacklog
    /\ last.filtered = last.queued

\* C18: a property-changed signal for one of the decoded properties whose
\* value ParseEvent rejects with the protocol error is reported as handled,
\* and no event is emitted for it.
C18_DecodeErrorIsHandled ==
    \A key \in DecodedProperties :
        (SignalFor(key) /\ last.decoded /\ last.parseRet # OTBR_ERROR_NONE) =>
            /\ last.result = DBUS_HANDLER_RESULT_HANDLED
            /\ last.events = <<>>

C18_Witness ==
    /\ SignalFor(kWPANTUNDProperty_NetworkPSKc)
    /\ Count(last.msg.args[2]) = kSizePSKc - 1
    /\ last.parseRet = OTBR_ERROR_DBUS
    /\ last.result = DBUS_HANDLER_RESULT_HANDLED

\* C19: a property-changed signal for a property that is none of the decoded
\* ones is decoded without error and without an event, and the filter
\* reports it as handled.
C19_OtherPropertyIsHandled ==
    (/\ last.op = "Filter"
     /\ last.msg.isPropChanged
     /\ Len(last.msg.args) = 2
     /\ last.msg.args[1].str \notin DecodedProperties) =>
        /\ last.parseRet = OTBR_ERROR_NONE
        /\ last.events = <<>>
        /\ last.result = DBUS_HANDLER_RESULT_HANDLED

\* C20: a message that is not the property-changed signal is reported as not
\* yet handled and no event is emitted for it, whether or not the filter
\* restarted the proxy for it and whatever TmfProxyStart returned.
C20_OtherMessagePassesThrough ==
    (last.op = "Filter" /\ ~last.msg.isPropChanged) =>
        /\ last.result = DBUS_HANDLER_RESULT_NOT_YET_HANDLED
        /\ last.events = <<>>
        /\ ~last.decoded

C20_Witness ==
    /\ last.op = "Filter"
    /\ ~last.msg.isPropChanged
    /\ last.starts = 1
    /\ last.ret # OTBR_ERROR_NONE
    /\ last.result = DBUS_HANDLER_RESULT_NOT_YET_HANDLED

\* C21: after any sequence of the add, remove and toggle watch callbacks the
\* watch registry holds exactly the watches that libdbus has added and not
\* yet removed, and the flag of each entry is libdbus' current enabled state
\* of that watch, a watch added while disabled included.
C21_RegistryMirrorsBus ==
    /\ DOMAIN mWatches = DOMAIN busEnabled
    /\ \A w \in DOMAIN mWatches : mWatches[w] = busEnabled[w]

====
